---------------------------- MODULE Spec2Model ----------------------------
(***************************************************************************)
(* A model of picasso/gausslq.py: the moment-based initial guess of the    *)
(* Gaussian fit, the partition of the spots into tasks, the process pool   *)
(* that runs the tasks, the aggregation of the task results and the        *)
(* assembly of the localization records.                                   *)
(*                                                                         *)
(* Numbers.  Pixels are integers.  A real value the code computes by a     *)
(* division is kept as an exact fraction <<numerator, denominator>> with a *)
(* positive denominator, and a square root as the fraction under the root; *)
(* the rounding to float32 of theta is left out (it changes neither the    *)
(* sign of a value nor whether it is zero).                                *)
(***************************************************************************)
EXTENDS Integers, Sequences, FiniteSets, TLC

VARIABLES
    (* the Initial Guess Estimator, applied to one spot *)
    e_spot,        \* the spot handed to _initial_parameters
    e_pc,          \* "call" | "done"
    e_out,         \* what _initial_parameters did: [raised, theta]
    (* the partition of fit_spots_parallel, on its own *)
    p_n_spots,     \* len(spots)
    p_cpu_count,   \* multiprocessing.cpu_count()
    p_pc,          \* "call" | "done"
    p_tasks,       \* zip(start_indices, spots_per_task): <<[i, n], ...>>
    (* the Localization Assembler *)
    l_identifications, \* the identification records, one per spot
    l_theta,       \* the fitted parameter matrix, one row per spot
    l_pc,          \* "call" | "done"
    l_locs,        \* the records locs_from_fits returns
    (* fit_spots_parallel, the process pool and fits_from_futures *)
    s_n_spots,     \* len(spots); spot k is sched_spot(k, s_flat)
    s_flat,        \* the position (1-based) of the one flat spot, 0: none
    s_cpu_count,   \* multiprocessing.cpu_count()
    s_async,       \* the async argument
    s_pc,          \* where the coordinating process is
    s_fs,          \* fs: the futures, in submission order
    s_started,     \* how many calls the pool has taken from its queue
    s_running,     \* the futures whose call is running
    s_failed,      \* the finished futures that hold an exception
    s_progress,    \* the progress bar's count
    s_j,           \* fits_from_futures: how many results were retrieved
    s_theta,       \* the matrix returned (NoMatrix before)
    s_reordered    \* history: a task finished before an earlier one

e_vars == <<e_spot, e_pc, e_out>>

p_vars == <<p_n_spots, p_cpu_count, p_pc, p_tasks>>

l_vars == <<l_identifications, l_theta, l_pc, l_locs>>

s_vars == <<s_n_spots, s_flat, s_cpu_count, s_async, s_pc, s_fs, s_started,
            s_running, s_failed, s_progress, s_j, s_theta, s_reordered>>

(***************************************************************************)
(* Bounds of the estimator's inputs.                                       *)
(***************************************************************************)
MaxPixel == 1

Sizes == {1, 3}

NoValue == [raised |-> "none", theta |-> <<>>]

Rat(n, d) == <<n, d>>

RatEq(a, b) == a[1] * b[2] = b[1] * a[2]

RatPos(a) == a[1] * a[2] > 0

RatMinusInt(a, k) == Rat(a[1] - k * a[2], a[2])

Max(a, b) == IF a >= b THEN a ELSE b

Min(a, b) == IF a <= b THEN a ELSE b

(***************************************************************************)
(* _sum_and_center_of_mass: the double loop of lines 28-32, one pixel per  *)
(* step k = i*size + j.                                                    *)
(***************************************************************************)
RECURSIVE com_loop(_, _, _, _)
com_loop(spot, size, k, acc) ==
    IF k = size * size THEN acc
    ELSE LET i == k \div size
             j == k % size
         IN  com_loop(spot, size, k + 1,
                      [x    |-> acc.x + spot[i][j] * i,
                       y    |-> acc.y + spot[i][j] * j,
                       sum_ |-> acc.sum_ + spot[i][j]])

(***************************************************************************)
(* Lines 33-35.  x /= _sum_ divides by the sum itself: numba's default     *)
(* error model raises ZeroDivisionError when it is zero.  The function     *)
(* returns (_sum_, y, x): the column moment before the row moment.         *)
(***************************************************************************)
sum_and_center_of_mass(spot, size) ==
    LET acc == com_loop(spot, size, 0, [x |-> 0, y |-> 0, sum_ |-> 0])
    IN  IF acc.sum_ = 0
        THEN [raised |-> "ZeroDivisionError", ret |-> <<>>]
        ELSE [raised |-> "none",
              ret    |-> <<acc.sum_, Rat(acc.y, acc.sum_), Rat(acc.x, acc.sum_)>>]

(***************************************************************************)
(* _initial_sigmas: the loop of lines 42-45 with y = yn/yd and x = xn/xd,  *)
(* every term over the common denominator yd^2 (xd^2).                     *)
(***************************************************************************)
RECURSIVE sigma_loop(_, _, _, _, _, _)
sigma_loop(spot, y, x, size, k, acc) ==
    IF k = size * size THEN acc
    ELSE LET i == k \div size
             j == k % size
         IN  sigma_loop(spot, y, x, size, k + 1,
                 [dy |-> acc.dy + spot[i][j] * (i * y[2] - y[1]) * (i * y[2] - y[1]),
                  dx |-> acc.dx + spot[i][j] * (j * x[2] - x[1]) * (j * x[2] - x[1])])

(***************************************************************************)
(* Lines 46-48: sy = sqrt(sum_deviation_y / sum), sx likewise; the value   *)
(* returned for a width is the fraction under the root.                    *)
(***************************************************************************)
initial_sigmas(spot, y, x, sum, size) ==
    LET acc == sigma_loop(spot, y, x, size, 0, [dy |-> 0, dx |-> 0])
    IN  IF sum = 0
        THEN [raised |-> "ZeroDivisionError", ret |-> <<>>]
        ELSE [raised |-> "none",
              ret    |-> <<Rat(acc.dy, y[2] * y[2] * sum),
                           Rat(acc.dx, x[2] * x[2] * sum)>>]

RECURSIVE min_loop(_, _, _, _)
min_loop(spot, size, k, m) ==
    IF k = size * size THEN m
    ELSE min_loop(spot, size, k + 1, Min(m, spot[k \div size][k % size]))

np_min(spot, size) == min_loop(spot, size, 1, spot[0][0])

(***************************************************************************)
(* _initial_parameters, lines 52-60.  theta is [x, y, photons, bg, sx, sy] *)
(* with the source's indices 0..5; theta[4] and theta[5] hold sx^2, sy^2.  *)
(***************************************************************************)
initial_parameters(spot, size, size_half) ==
    LET bg              == np_min(spot, size)
        spot_without_bg == [i \in 0..(size - 1) |->
                              [j \in 0..(size - 1) |-> spot[i][j] - bg]]
        com             == sum_and_center_of_mass(spot_without_bg, size)
    IN  IF com.raised # "none"
        THEN [raised |-> com.raised, theta |-> <<>>]
        ELSE LET sum    == com.ret[1]
                 theta1 == com.ret[2]
                 theta0 == com.ret[3]
                 sig    == initial_sigmas(spot_without_bg, theta1, theta0, sum, size)
             IN  IF sig.raised # "none"
                 THEN [raised |-> sig.raised, theta |-> <<>>]
                 ELSE [raised |-> "none",
                       theta  |-> [k \in 0..5 |->
                           CASE k = 0 -> RatMinusInt(theta0, size_half)
                             [] k = 1 -> RatMinusInt(theta1, size_half)
                             [] k = 2 -> Rat(Max(1, sum), 1)
                             [] k = 3 -> Rat(bg, 1)
                             [] k = 4 -> sig.ret[2]
                             [] k = 5 -> sig.ret[1]]]

(***************************************************************************)
(* The forward model, lines 64-75: model[i, j] = n * a[i] * b[j] + bg with *)
(* a = model_y = gaussian(theta[1], theta[5]) and b = model_x =            *)
(* gaussian(theta[0], theta[4]).  So theta[0], theta[4] place and widen    *)
(* the profile along the columns j, and theta[1], theta[5] along the rows. *)
(***************************************************************************)
compute_model(theta) ==
    [along_columns |-> [mu |-> theta[0], sigma |-> theta[4]],
     along_rows    |-> [mu |-> theta[1], sigma |-> theta[5]],
     n             |-> theta[2],
     bg            |-> theta[3]]

SpotsOfSize(size) ==
    [0..(size - 1) -> [0..(size - 1) -> 0..MaxPixel]]

spot_size(spot) == Cardinality(DOMAIN spot)

(* fit_spot, lines 86-94: size, size_half and the call of the estimator. *)
EstCall ==
    /\ e_pc = "call"
    /\ LET size      == spot_size(e_spot)
           size_half == size \div 2
       IN  e_out' = initial_parameters(e_spot, size, size_half)
    /\ e_pc' = "done"
    /\ UNCHANGED <<e_spot, p_vars, l_vars, s_vars>>

EstNext == EstCall

(***************************************************************************)
(* fit_spots_parallel, lines 119-123: the worker count, the task count and *)
(* the partition.  int(0.75 * c) is floor(3c / 4); int(n / T + 1) is       *)
(* floor(n / T) + 1 (the float quotient of two counts below 2^52 / T never *)
(* rounds up to the next integer).                                         *)
(***************************************************************************)
TasksPerWorker == 100

n_workers_of(cpu_count) == Max(1, (3 * cpu_count) \div 4)

n_tasks_of(cpu_count) == TasksPerWorker * n_workers_of(cpu_count)

(* the comparison of line 122 taken as <= : one task too many gets the
   extra spot *)
spots_per_task_le(n_spots, n_tasks) ==
    [t \in 1..n_tasks |->
        IF (t - 1) <= n_spots % n_tasks
        THEN (n_spots \div n_tasks) + 1
        ELSE n_spots \div n_tasks]

(* line 122; the task of index _ is the element _ + 1 of the sequence *)
spots_per_task_of(n_spots, n_tasks) ==
    [t \in 1..n_tasks |->
        IF (t - 1) < n_spots % n_tasks
        THEN (n_spots \div n_tasks) + 1
        ELSE n_spots \div n_tasks]

(* the sum of a[lo..hi], halving the range *)
RECURSIVE sum_range(_, _, _)
sum_range(a, lo, hi) ==
    IF lo > hi THEN 0
    ELSE IF lo = hi THEN a[lo]
    ELSE LET mid == (lo + hi) \div 2
         IN  sum_range(a, lo, mid) + sum_range(a, mid + 1, hi)

np_cumsum(a) == [k \in 1..Len(a) |-> sum_range(a, 1, k)]

(* the cumulative sum of the sizes themselves: each start one task late *)
start_indices_unshifted(spots_per_task) == np_cumsum(spots_per_task)

(* line 123: cumsum([0] + spots_per_task[:-1]) *)
start_indices_of(spots_per_task) ==
    np_cumsum(<<0>> \o SubSeq(spots_per_task, 1, Len(spots_per_task) - 1))

(* line 126: zip(start_indices, spots_per_task) *)
zip_tasks(start_indices, spots_per_task) ==
    [t \in 1..Min(Len(start_indices), Len(spots_per_task)) |->
        [i |-> start_indices[t], n |-> spots_per_task[t]]]

partition(n_spots, cpu_count) ==
    LET n_tasks        == n_tasks_of(cpu_count)
        spots_per_task == spots_per_task_of(n_spots, n_tasks)
        start_indices  == start_indices_of(spots_per_task)
    IN  zip_tasks(start_indices, spots_per_task)

(***************************************************************************)
(* Bounds of the partition's inputs; 997 spots on 6 cores (4 workers) is   *)
(* the documented scenario.                                                *)
(***************************************************************************)
MaxPartSpots == 120

MaxPartCpu == 3

PartCall ==
    /\ p_pc = "call"
    /\ p_tasks' = partition(p_n_spots, p_cpu_count)
    /\ p_pc' = "done"
    /\ UNCHANGED <<p_n_spots, p_cpu_count, e_vars, l_vars, s_vars>>

PartNext == PartCall

(***************************************************************************)
(* locs_from_fits, lines 141-159.  A row of theta is indexed 0..5 as in    *)
(* the source.  localization_precision is another module's function, kept  *)
(* as the term of its arguments; src is the record's input index (1-based),*)
(* which the program does not store: it is kept to tell the records apart. *)
(***************************************************************************)
localization_precision(photons, s, bg, em) ==
    <<"localization_precision", photons, s, bg, em>>

loc_record(identification, row, em, k) ==
    LET a == Max(row[4], row[5])
        b == Min(row[4], row[5])
    IN  [frame        |-> identification.frame,
         x            |-> row[0] + identification.x,
         y            |-> row[1] + identification.y,
         photons      |-> row[2],
         sx           |-> row[4],
         sy           |-> row[5],
         bg           |-> row[3],
         lpx          |-> localization_precision(row[2], row[4], row[3], em),
         lpy          |-> localization_precision(row[2], row[5], row[3], em),
         ellipticity  |-> Rat(a - b, a),
         net_gradient |-> identification.net_gradient,
         src          |-> k]

(***************************************************************************)
(* locs.sort(kind='mergesort', order='frame'), line 158.  numpy compares   *)
(* the records of a structured array by the fields of order first and then *)
(* by every other field, in the order of the dtype, to break ties: frame,  *)
(* x, y, photons, sx, sy, bg, lpx, lpy, ellipticity, net_gradient.  Two    *)
(* records equal up to bg have equal lpx, lpy and ellipticity (each is a   *)
(* function of photons, sx, sy, bg and em), so the key below decides the   *)
(* same comparisons.                                                       *)
(***************************************************************************)
sort_key(r) == <<r.frame, r.x, r.y, r.photons, r.sx, r.sy, r.bg, r.net_gradient>>

RECURSIVE key_less(_, _, _)
key_less(a, b, k) ==
    IF k > Len(a) THEN FALSE
    ELSE IF a[k] # b[k] THEN a[k] < b[k]
    ELSE key_less(a, b, k + 1)

record_less(r, q) == key_less(sort_key(r), sort_key(q), 1)

(* the merge of two sorted runs: the right element goes first only when it
   is smaller *)
RECURSIVE merge(_, _)
merge(left, right) ==
    IF left = <<>> THEN right
    ELSE IF right = <<>> THEN left
    ELSE IF record_less(Head(right), Head(left))
         THEN <<Head(right)>> \o merge(left, Tail(right))
         ELSE <<Head(left)>> \o merge(Tail(left), right)

RECURSIVE mergesort(_)
mergesort(a) ==
    IF Len(a) <= 1 THEN a
    ELSE LET mid == Len(a) \div 2
         IN  merge(mergesort(SubSeq(a, 1, mid)),
                   mergesort(SubSeq(a, mid + 1, Len(a))))

locs_from_fits(identifications, theta, em) ==
    mergesort([k \in 1..Len(identifications) |->
                  loc_record(identifications[k], theta[k], em, k)])

(***************************************************************************)
(* Bounds of the assembler's inputs.                                       *)
(***************************************************************************)
MaxLocs == 3

MaxFrame == 1

MaxCoord == 1

Identifications ==
    [frame : 0..MaxFrame, x : 0..MaxCoord, y : {0}, net_gradient : {5}]

ThetaRows ==
    {[k \in 0..5 |-> CASE k = 0 -> dx [] k = 1 -> 0 [] k = 2 -> 9
                       [] k = 3 -> 1 [] k = 4 -> 1 [] k = 5 -> 2] :
        dx \in {0, 2}}

LocsCall ==
    /\ l_pc = "call"
    /\ \E em \in BOOLEAN :
          l_locs' = locs_from_fits(l_identifications, l_theta, em)
    /\ l_pc' = "done"
    /\ UNCHANGED <<l_identifications, l_theta, e_vars, p_vars, s_vars>>

LocsNext == LocsCall

(***************************************************************************)
(* fit_spot, lines 85-107.  The estimator may raise.  leastsq first        *)
(* evaluates _compute_residuals at theta0, where _gaussian (line 12)       *)
(* divides by sigma = theta0[4] and theta0[5]: ZeroDivisionError when a    *)
(* width is zero.  What the solver returns from a valid start is kept as   *)
(* the term of its arguments: a function of the spot alone.                *)
(***************************************************************************)
py_len(a) == Cardinality(DOMAIN a)

fit_spot(spot) ==
    LET size      == spot_size(spot)
        size_half == size \div 2
        theta0    == initial_parameters(spot, size, size_half)
    IN  IF theta0.raised # "none"
        THEN [raised |-> theta0.raised, ret |-> <<>>]
        ELSE IF theta0.theta[4][1] = 0 \/ theta0.theta[5][1] = 0
        THEN [raised |-> "ZeroDivisionError", ret |-> <<>>]
        ELSE [raised |-> "none",
              ret    |-> [leastsq |-> theta0.theta, spot |-> spot]]

(***************************************************************************)
(* fit_spots, lines 110-115: one row per spot, in order; an exception of   *)
(* fit_spot leaves the loop and the function.                              *)
(***************************************************************************)
fit_spots(spots) ==
    IF \E k \in 1..py_len(spots) : fit_spot(spots[k]).raised # "none"
    THEN [raised |-> "ZeroDivisionError", ret |-> <<>>]
    ELSE [raised |-> "none",
          ret    |-> [k \in 1..py_len(spots) |-> fit_spot(spots[k]).ret]]

(* spots[i:i+n]: a slice ends at the end of the sequence *)
py_slice(spots, i, n) ==
    LET lo == Min(i, py_len(spots))
        hi == Min(i + n, py_len(spots))
    IN  [k \in 1..(hi - lo) |-> spots[lo + k]]

(***************************************************************************)
(* The spots of a run: a 3x3 spot per index k (1-based), all different.    *)
(* The flat one has every pixel equal; the others have two bright pixels.  *)
(***************************************************************************)
sched_spot(k, flat) ==
    [i \in 0..2 |-> [j \in 0..2 |->
        IF k = flat THEN 7
        ELSE IF i = 0 /\ j = 0 THEN 3 + k
        ELSE IF i = 1 /\ j = 1 THEN 4
        ELSE 3]]

sched_spots(n_spots, flat) == [k \in 1..n_spots |-> sched_spot(k, flat)]

Spots == sched_spots(s_n_spots, s_flat)

NoMatrix == <<"none">>

(***************************************************************************)
(* The futures.  s_fs[t] keeps the slice (i, n) the call of future t was   *)
(* submitted with.  The pool takes the calls from its queue in submission  *)
(* order, so the state of future t is told by how many calls were taken    *)
(* (s_started) and which of them still run (s_running).  The result or the *)
(* exception a finished future holds is what fit_spots did on its slice.   *)
(***************************************************************************)
new_future(task) == [i |-> task.i, n |-> task.n]

(* lines 124-127 *)
submit_all(n_spots, cpu_count) ==
    LET tasks == partition(n_spots, cpu_count)
    IN  [t \in 1..Len(tasks) |-> new_future(tasks[t])]

future_state(t, started, running) ==
    IF t > started THEN "PENDING"
    ELSE IF t \in running THEN "RUNNING"
    ELSE "FINISHED"

(* the worker's call fit_spots(spots[i:i+n_spots_task]), line 127 *)
worker_call(spots, f) == fit_spots(py_slice(spots, f.i, f.n))

(* a result() that swallows the exception of the future *)
future_exception_swallowed(failed, t) == "none"

(* Future.result() of finished future t raises the exception the future
   holds, if it holds one; s_failed is the set of the futures that do *)
future_exception(failed, t) ==
    IF t \in failed THEN "ZeroDivisionError" ELSE "none"

(* and returns the result it holds otherwise *)
future_result(spots, f) == worker_call(spots, f).ret

(* _np.vstack of the results of futures lo..hi, in list order *)
RECURSIVE np_vstack(_, _, _, _)
np_vstack(spots, futures, lo, hi) ==
    IF lo > hi THEN <<>>
    ELSE IF lo = hi THEN future_result(spots, futures[lo])
    ELSE LET mid == (lo + hi) \div 2
         IN  np_vstack(spots, futures, lo, mid)
             \o np_vstack(spots, futures, mid + 1, hi)

(* the results stacked last to first *)
RECURSIVE np_vstack_reversed(_, _, _, _)
np_vstack_reversed(spots, futures, lo, hi) ==
    IF lo > hi THEN <<>>
    ELSE IF lo = hi THEN future_result(spots, futures[lo])
    ELSE LET mid == (lo + hi) \div 2
         IN  np_vstack_reversed(spots, futures, mid + 1, hi)
             \o np_vstack_reversed(spots, futures, lo, mid)

fits_from_futures_reversed(spots, futures) ==
    np_vstack_reversed(spots, futures, 1, Len(futures))

(* fits_from_futures, lines 136-138, once every result was retrieved *)
fits_from_futures(spots, futures) == np_vstack(spots, futures, 1, Len(futures))

n_finished(started, running) == started - Cardinality(running)

SetMin(S) == CHOOSE m \in S : \A o \in S : m <= o

(* an as_completed that also yields the futures still running *)
as_completed_ready_started(yielded, started, running) == yielded < started

(* as_completed yields a future once it has finished, each one once *)
as_completed_ready(yielded, started, running) ==
    yielded < n_finished(started, running)

(***************************************************************************)
(* Bounds.  MaxSpots and MaxCpu bound the inputs.  MaxOvertake bounds how  *)
(* far the pool runs ahead of a task that is still running, MaxBacklog how *)
(* many finished futures the coordinating process has not yet consumed     *)
(* while it consumes them.                                                 *)
(***************************************************************************)
MaxSpots == 2

MaxCpu == 3

MaxOvertake == 1

MaxBacklog == 1

(* the branch on async left out: every call waits *)
after_submit_waits(async) == "as_completed"

(* lines 128-130: async returns fs at once, otherwise the loop over
   as_completed(fs) is entered *)
after_submit(async) == IF async THEN "returned_fs" ELSE "as_completed"

(* fit_spots_parallel, lines 119-130: the partition, the submissions and
   the branch on async.  The submission loop observes nothing of the pool
   and is one step: the workers take the calls after it. *)
FitSpotsParallel ==
    /\ s_pc = "call"
    /\ s_fs' = submit_all(s_n_spots, s_cpu_count)
    /\ s_pc' = after_submit(s_async)
    /\ UNCHANGED <<e_vars, p_vars, l_vars>>
    /\ UNCHANGED <<s_n_spots, s_flat, s_cpu_count, s_async, s_started,
                   s_running, s_failed, s_progress, s_j, s_theta, s_reordered>>

(* lines 131-132: one future yielded, one update of the progress bar *)
Yield ==
    /\ s_pc = "as_completed"
    /\ as_completed_ready(s_progress, s_started, s_running)
    /\ s_progress' = s_progress + 1
    /\ UNCHANGED <<e_vars, p_vars, l_vars>>
    /\ UNCHANGED <<s_n_spots, s_flat, s_cpu_count, s_async, s_pc, s_fs,
                   s_started, s_running, s_failed, s_j, s_theta, s_reordered>>

(* line 133: as_completed is exhausted, fits_from_futures(fs) is called *)
CallAggregate ==
    /\ s_pc = "as_completed"
    /\ s_progress = Len(s_fs)
    /\ s_pc' = "fits_from_futures"
    /\ UNCHANGED <<e_vars, p_vars, l_vars>>
    /\ UNCHANGED <<s_n_spots, s_flat, s_cpu_count, s_async, s_fs, s_started,
                   s_running, s_failed, s_progress, s_j, s_theta, s_reordered>>

(* the caller of the async mode hands the futures to fits_from_futures *)
CallFitsFromFutures ==
    /\ s_pc = "returned_fs"
    /\ s_pc' = "fits_from_futures"
    /\ UNCHANGED <<e_vars, p_vars, l_vars>>
    /\ UNCHANGED <<s_n_spots, s_flat, s_cpu_count, s_async, s_fs, s_started,
                   s_running, s_failed, s_progress, s_j, s_theta, s_reordered>>

(***************************************************************************)
(* Line 137, [_.result() for _ in futures]: the loop runs over the         *)
(* finished futures from s_j + 1 on, in list order, until a result() call  *)
(* raises or has to wait for a future that has not finished.               *)
(***************************************************************************)
first_unfinished(futures, started, running) ==
    SetMin(running \cup {started + 1})

Result ==
    /\ s_pc = "fits_from_futures"
    /\ s_j < Len(s_fs)
    /\ future_state(s_j + 1, s_started, s_running) = "FINISHED"
    /\ LET stop    == first_unfinished(s_fs, s_started, s_running)
           failing == {t \in (s_j + 1)..(stop - 1) :
                          future_exception(s_failed, t) # "none"}
       IN  IF failing # {}
           THEN s_pc' = "raised" /\ s_j' = SetMin(failing) - 1
           ELSE s_pc' = s_pc /\ s_j' = stop - 1
    /\ UNCHANGED <<e_vars, p_vars, l_vars>>
    /\ UNCHANGED <<s_n_spots, s_flat, s_cpu_count, s_async, s_fs, s_started,
                   s_running, s_failed, s_progress, s_theta, s_reordered>>

(* line 138: every result was retrieved; the matrix is returned *)
ReturnMatrix ==
    /\ s_pc = "fits_from_futures"
    /\ s_j = Len(s_fs)
    /\ s_theta' = fits_from_futures(Spots, s_fs)
    /\ s_pc' = "returned"
    /\ UNCHANGED <<e_vars, p_vars, l_vars>>
    /\ UNCHANGED <<s_n_spots, s_flat, s_cpu_count, s_async, s_fs, s_started,
                   s_running, s_failed, s_progress, s_j, s_reordered>>

(***************************************************************************)
(* The pool, ProcessPoolExecutor(n_workers) of line 125: a free worker     *)
(* takes the oldest pending call.                                          *)
(***************************************************************************)
WorkerStart ==
    /\ s_pc # "call"
    /\ s_started < Len(s_fs)
    /\ Cardinality(s_running) < n_workers_of(s_cpu_count)
    /\ \A r \in s_running : (s_started + 1) - r <= MaxOvertake
    /\ s_started' = s_started + 1
    /\ s_running' = s_running \cup {s_started + 1}
    /\ UNCHANGED <<e_vars, p_vars, l_vars>>
    /\ UNCHANGED <<s_n_spots, s_flat, s_cpu_count, s_async, s_pc, s_fs,
                   s_failed, s_progress, s_j, s_theta, s_reordered>>

Consumed == IF s_pc = "as_completed" THEN s_progress ELSE s_j

(* the call of a worker returns or raises: its future has finished *)
WorkerFinish(t) ==
    /\ t \in s_running
    /\ s_pc \in {"as_completed", "fits_from_futures"}
          => n_finished(s_started, s_running) - Consumed < MaxBacklog
    /\ s_running' = s_running \ {t}
    /\ s_failed' = IF worker_call(Spots, s_fs[t]).raised # "none"
                   THEN s_failed \cup {t}
                   ELSE s_failed
    /\ s_reordered' = (s_reordered \/ \E r \in s_running : r < t)
    /\ UNCHANGED <<e_vars, p_vars, l_vars>>
    /\ UNCHANGED <<s_n_spots, s_flat, s_cpu_count, s_async, s_pc, s_fs,
                   s_started, s_progress, s_j, s_theta>>

SchedNext ==
    \/ FitSpotsParallel
    \/ Yield
    \/ CallAggregate
    \/ CallFitsFromFutures
    \/ Result
    \/ ReturnMatrix
    \/ WorkerStart
    \/ \E t \in s_running : WorkerFinish(t)

vars == <<e_vars, p_vars, l_vars, s_vars>>

(***************************************************************************)
(* One specification per entry point; the variables of the other entry     *)
(* points stay idle.                                                       *)
(***************************************************************************)
EstInit ==
    /\ \E size \in Sizes : e_spot \in SpotsOfSize(size)
    /\ e_pc = "call"
    /\ e_out = NoValue
    /\ p_n_spots = 0 /\ p_cpu_count = 1 /\ p_pc = "idle" /\ p_tasks = <<>>
    /\ l_identifications = <<>> /\ l_theta = <<>> /\ l_pc = "idle"
    /\ l_locs = <<>>
    /\ s_n_spots = 0 /\ s_flat = 0 /\ s_cpu_count = 1 /\ s_async = FALSE
    /\ s_pc = "idle" /\ s_fs = <<>> /\ s_started = 0 /\ s_running = {}
    /\ s_failed = {} /\ s_progress = 0 /\ s_j = 0
    /\ s_theta = NoMatrix /\ s_reordered = FALSE

PartInit ==
    /\ p_n_spots \in (0..MaxPartSpots) \cup {997}
    /\ p_cpu_count \in (1..MaxPartCpu) \cup {6}
    /\ p_pc = "call"
    /\ p_tasks = <<>>
    /\ e_spot = <<>> /\ e_pc = "idle" /\ e_out = NoValue
    /\ l_identifications = <<>> /\ l_theta = <<>> /\ l_pc = "idle"
    /\ l_locs = <<>>
    /\ s_n_spots = 0 /\ s_flat = 0 /\ s_cpu_count = 1 /\ s_async = FALSE
    /\ s_pc = "idle" /\ s_fs = <<>> /\ s_started = 0 /\ s_running = {}
    /\ s_failed = {} /\ s_progress = 0 /\ s_j = 0
    /\ s_theta = NoMatrix /\ s_reordered = FALSE

LocsInit ==
    /\ \E n \in 0..MaxLocs :
          /\ l_identifications \in [1..n -> Identifications]
          /\ l_theta \in [1..n -> ThetaRows]
    /\ l_pc = "call"
    /\ l_locs = <<>>
    /\ e_spot = <<>> /\ e_pc = "idle" /\ e_out = NoValue
    /\ p_n_spots = 0 /\ p_cpu_count = 1 /\ p_pc = "idle" /\ p_tasks = <<>>
    /\ s_n_spots = 0 /\ s_flat = 0 /\ s_cpu_count = 1 /\ s_async = FALSE
    /\ s_pc = "idle" /\ s_fs = <<>> /\ s_started = 0 /\ s_running = {}
    /\ s_failed = {} /\ s_progress = 0 /\ s_j = 0
    /\ s_theta = NoMatrix /\ s_reordered = FALSE

SchedInit ==
    /\ s_n_spots \in (0..MaxSpots) \cup {250}
    /\ s_flat \in {0, s_n_spots}
    /\ s_cpu_count \in {1, MaxCpu}
    /\ s_async \in BOOLEAN
    /\ s_pc = "call"
    /\ s_fs = <<>>
    /\ s_started = 0
    /\ s_running = {}
    /\ s_failed = {}
    /\ s_progress = 0
    /\ s_j = 0
    /\ s_theta = NoMatrix
    /\ s_reordered = FALSE
    /\ e_spot = <<>> /\ e_pc = "idle" /\ e_out = NoValue
    /\ p_n_spots = 0 /\ p_cpu_count = 1 /\ p_pc = "idle" /\ p_tasks = <<>>
    /\ l_identifications = <<>> /\ l_theta = <<>> /\ l_pc = "idle"
    /\ l_locs = <<>>

SpecEst == EstInit /\ [][EstNext]_vars

SpecPart == PartInit /\ [][PartNext]_vars

SpecLocs == LocsInit /\ [][LocsNext]_vars

Spec == SchedInit /\ [][SchedNext]_vars

(***************************************************************************)
(* Claims about the Initial Guess Estimator (specification SpecEst).       *)
(***************************************************************************)
EstSize == spot_size(e_spot)

EstHalf == EstSize \div 2

EstBgRemoved ==
    [i \in 0..(EstSize - 1) |->
        [j \in 0..(EstSize - 1) |-> e_spot[i][j] - np_min(e_spot, EstSize)]]

RECURSIVE WeightedSum(_, _, _, _)
WeightedSum(v, w, size, k) ==
    IF k = size * size THEN 0
    ELSE v[k \div size][k % size] * w[k \div size][k % size]
         + WeightedSum(v, w, size, k + 1)

OneWeights(size) == [i \in 0..(size - 1) |-> [j \in 0..(size - 1) |-> 1]]

RowWeights(size) == [i \in 0..(size - 1) |-> [j \in 0..(size - 1) |-> i]]

ColWeights(size) == [i \in 0..(size - 1) |-> [j \in 0..(size - 1) |-> j]]

EstSum == WeightedSum(EstBgRemoved, OneWeights(EstSize), EstSize, 0)

EstRowMoment == WeightedSum(EstBgRemoved, RowWeights(EstSize), EstSize, 0)

EstColMoment == WeightedSum(EstBgRemoved, ColWeights(EstSize), EstSize, 0)

(* sum^2 * (sum of v[i,j] * (i - RowMoment/sum)^2), and the same for columns *)
EstRowDev ==
    WeightedSum(EstBgRemoved,
                [i \in 0..(EstSize - 1) |-> [j \in 0..(EstSize - 1) |->
                    (i * EstSum - EstRowMoment) * (i * EstSum - EstRowMoment)]],
                EstSize, 0)

EstColDev ==
    WeightedSum(EstBgRemoved,
                [i \in 0..(EstSize - 1) |-> [j \in 0..(EstSize - 1) |->
                    (j * EstSum - EstColMoment) * (j * EstSum - EstColMoment)]],
                EstSize, 0)

EstReturned == e_pc = "done" /\ e_out.raised = "none"

(* C6: a spot whose background-removed sum is zero never reaches a division
   by that sum: _initial_parameters raises no ZeroDivisionError. *)
C6_NoDivisionByZero ==
    e_pc = "done" => e_out.raised # "ZeroDivisionError"

(* C9: every parameter vector _initial_parameters produces has
   photons >= 1, sx > 0 and sy > 0. *)
C9_InitialInvariant ==
    EstReturned =>
        /\ e_out.theta[2][1] >= e_out.theta[2][2]
        /\ RatPos(e_out.theta[4])
        /\ RatPos(e_out.theta[5])

(* C10: for a spot of positive background-removed sum, the parameter the
   forward model places along the columns (theta[0]) is the intensity-weighted
   mean column index minus H and the one it places along the rows (theta[1])
   is the mean row index minus H; sy comes from the row deviations (i - y0)
   and sx from the column deviations (j - x0). *)
C10_CenterOfMassAxes ==
    EstReturned =>
        LET m == compute_model(e_out.theta)
        IN  /\ RatEq(m.along_columns.mu,
                     RatMinusInt(Rat(EstColMoment, EstSum), EstHalf))
            /\ RatEq(m.along_rows.mu,
                     RatMinusInt(Rat(EstRowMoment, EstSum), EstHalf))
            /\ RatEq(m.along_rows.sigma,
                     Rat(EstRowDev, EstSum * EstSum * EstSum))
            /\ RatEq(m.along_columns.sigma,
                     Rat(EstColDev, EstSum * EstSum * EstSum))


(***************************************************************************)
(* Claims about the partition (specification SpecPart).                    *)
(***************************************************************************)
PartW == Max(1, (3 * p_cpu_count) \div 4)

PartT == 100 * PartW

TasksHolding(k) == {t \in 1..Len(p_tasks) : p_tasks[t].i <= k /\ k < p_tasks[t].i + p_tasks[t].n}

(* C1: the spot indices 0..N-1 are split into exactly T = 100*W tasks that
   are contiguous ranges in increasing order; the first N mod T tasks hold
   floor(N/T)+1 spots and the others floor(N/T); every spot is in exactly one
   task, two sizes differ by at most 1 and the sizes add up to N. *)
C1_BalancedPartition ==
    p_pc = "done" =>
        /\ Len(p_tasks) = PartT
        /\ p_tasks[1].i = 0
        /\ \A t \in 1..(PartT - 1) : p_tasks[t + 1].i = p_tasks[t].i + p_tasks[t].n
        /\ p_tasks[PartT].i + p_tasks[PartT].n = p_n_spots
        /\ \A t \in 1..PartT :
              p_tasks[t].n = (p_n_spots \div PartT)
                             + (IF t <= p_n_spots % PartT THEN 1 ELSE 0)
        /\ \A t, u \in 1..PartT : p_tasks[t].n - p_tasks[u].n <= 1
        /\ \A k \in 0..(p_n_spots - 1) : Cardinality(TasksHolding(k)) = 1

(* C1's case: more spots than tasks, not a multiple of the task count *)
C1_Witness ==
    /\ p_pc = "done"
    /\ p_n_spots = 997 /\ Len(p_tasks) = 400
    /\ p_tasks[197].n = 3 /\ p_tasks[198].n = 2


(***************************************************************************)
(* Claims about the Localization Assembler (specification SpecLocs).       *)
(***************************************************************************)
LocsInput(k) == loc_record(l_identifications[k], l_theta[k], TRUE, k)

SameRecord(r, q) ==
    /\ r.frame = q.frame /\ r.x = q.x /\ r.y = q.y
    /\ r.photons = q.photons /\ r.sx = q.sx /\ r.sy = q.sy /\ r.bg = q.bg
    /\ r.net_gradient = q.net_gradient

(* C7: locs_from_fits returns a permutation of the input records, sorted by
   non-decreasing frame, and of two input records of equal frame the one
   with the smaller input index comes first. *)
C7_StableFrameSort ==
    l_pc = "done" =>
        /\ Len(l_locs) = Len(l_identifications)
        /\ {l_locs[a].src : a \in 1..Len(l_locs)} = 1..Len(l_identifications)
        /\ \A a \in 1..Len(l_locs) : SameRecord(l_locs[a], LocsInput(l_locs[a].src))
        /\ \A a, b \in 1..Len(l_locs) :
              a < b => /\ l_locs[a].frame <= l_locs[b].frame
                       /\ (l_locs[a].frame = l_locs[b].frame
                              => l_locs[a].src < l_locs[b].src)


(***************************************************************************)
(* Claims about fit_spots_parallel and fits_from_futures (specification    *)
(* Spec).                                                                  *)
(***************************************************************************)
SchedT == 100 * Max(1, (3 * s_cpu_count) \div 4)

AllFinished == s_started = Len(s_fs) /\ s_running = {}

(* C2: whatever the order in which the tasks finish, row k of the matrix
   fits_from_futures returns is the fit of input spot k. *)
C2_RowOrder ==
    s_pc = "returned" =>
        \A k \in 1..s_n_spots :
            /\ k \in DOMAIN s_theta
            /\ s_theta[k] = fit_spot(Spots[k]).ret

(* C2's case: a matrix was returned after a task finished before an earlier
   one *)
C2_Witness ==
    s_pc = "returned" /\ s_reordered /\ s_n_spots >= 2

(* C3: when every task succeeds, the matrix the synchronous call returns has
   N rows and is the matrix fit_spots returns for the whole collection. *)
C3_PartitionInvariance ==
    (s_pc = "returned" /\ ~s_async) =>
        /\ Len(s_theta) = s_n_spots
        /\ s_theta = fit_spots(Spots).ret

(* C3's case: 250 spots over 200 tasks of 2 or 1 spots, two workers *)
C3_Witness ==
    /\ s_pc = "returned" /\ ~s_async
    /\ s_n_spots = 250 /\ Len(s_fs) = 200 /\ s_reordered

(* C4: the asynchronous call returns one handle per task, in submission
   order, while no task has finished; fits_from_futures on the handles returns
   only when all have finished, and returns the matrix of the synchronous
   mode: fit_spots of the whole collection. *)
C4_AsyncMode ==
    [][s_async =>
         /\ s_pc = "call" =>
               /\ s_pc' = "returned_fs"
               /\ s_started' = 0 /\ s_running' = {}
               /\ Len(s_fs') = SchedT
               /\ LET tasks == partition(s_n_spots, s_cpu_count)
                  IN  \A t \in 1..SchedT :
                         s_fs'[t] = [i |-> tasks[t].i, n |-> tasks[t].n]
         /\ (s_pc # "returned" /\ s_pc' = "returned") =>
               /\ AllFinished
               /\ s_theta' = fit_spots(Spots).ret]_vars

(* C4's case: the handles were aggregated into a matrix *)
C4_Witness ==
    s_pc = "returned" /\ s_async /\ s_n_spots = 250 /\ s_reordered

(* C5: in the synchronous mode a finished task is never run again; a matrix
   is returned only if every task succeeded; a failure is raised when the
   failed task's result is retrieved in fits_from_futures, and no matrix is
   returned then. *)
C5_FailurePropagates ==
    [][~s_async =>
         /\ s_started' >= s_started
         /\ \A r \in s_running' : r <= s_started => r \in s_running
         /\ s_failed \subseteq s_failed'
         /\ s_failed # {} => s_pc' # "returned"
         /\ s_pc' = "returned" =>
               \A t \in 1..Len(s_fs) : worker_call(Spots, s_fs[t]).raised = "none"
         /\ (s_pc # "raised" /\ s_pc' = "raised") =>
               /\ s_pc = "fits_from_futures"
               /\ (s_j' + 1) \in s_failed
               /\ s_theta' = NoMatrix]_vars

(* C5's case: one of 250 spots made its task fail and the call raised *)
C5_Witness ==
    s_pc = "raised" /\ ~s_async /\ s_n_spots = 250 /\ s_failed # {}

(* C8: in the synchronous mode the progress count grows by one at a time,
   changes nothing but itself, never exceeds the number of finished tasks,
   is the task count T when the call ends, and the matrix returned is the one
   fit_spots returns for the whole collection. *)
C8_Progress ==
    [][~s_async =>
         /\ s_progress' \in {s_progress, s_progress + 1}
         /\ s_progress' # s_progress =>
               UNCHANGED <<s_fs, s_started, s_running, s_failed, s_j, s_theta>>
         /\ s_progress' <= n_finished(s_started', s_running')
         /\ s_pc' \in {"returned", "raised"} => s_progress' = SchedT
         /\ s_pc' = "returned" => s_theta' = fit_spots(Spots).ret]_vars

(* C8's case: the synchronous call returned with the bar at T = 100 tasks
   for 250 spots *)
C8_Witness ==
    /\ s_pc = "returned" /\ ~s_async
    /\ s_n_spots = 250 /\ s_progress = 100

=============================================================================
